---- MODULE Spec2Model ----
(***************************************************************************)
(* Model of JT_Gravity/Schwarzian_action.py: the pipeline run by main()    *)
(* (time grid, initial perturbations, initial Schwarzian, cubic spline,    *)
(* ODE solve, reconstruction, plotting) and the pointwise numerics of its  *)
(* three guarded divisions.                                                *)
(*                                                                         *)
(* Numbers.  A float is modelled as an exact extended rational <<n, d>>    *)
(* in lowest terms: d > 0 is the finite value n/d, <<1, 0>> is +inf,       *)
(* <<-1, 0>> is -inf and <<0, 0>> is NaN, with the IEEE rules numpy uses   *)
(* for x/0, 0*inf and inf-inf.  Rounding of float64 is not modelled.       *)
(* numpy's whole-array operations are elementwise, so the pointwise        *)
(* operators below are applied per grid index.                             *)
(***************************************************************************)
EXTENDS Integers, Sequences, FiniteSets, TLC

VARIABLES
    config,     \* the module-level Config instance (line 20)
    pc,         \* position of the run inside main() / the pointwise harness
    stages,     \* history: the stages that have been entered, in order
    err,        \* the exception that ended the run, <<>> when none
    t_np,       \* line 24
    pert,       \* line 27: per grid index, the six values of compute_initial_perturbations
    init,       \* line 30: per grid index, the result of compute_initial_schwarzian
    S0_spline,  \* line 35: the spline's values at the grid points, <<>> before it is built
    sol,        \* line 127: the solve_ivp result, <<>> before the solve
    plotArgs,   \* line 155: the series handed to plot_solutions, <<>> before the call
    drawn,      \* lines 159-207: the curves plot_solutions has drawn
    pt,         \* pointwise harness: one sample point and ODE state
    num         \* pointwise harness: results of the three evaluations at pt

vars == <<config, pc, stages, err, t_np, pert, init, S0_spline, sol, plotArgs, drawn, pt, num>>

pipeVars == <<stages, err, t_np, pert, init, S0_spline, sol, plotArgs, drawn>>

-----------------------------------------------------------------------------
(* Bounds of the model *)

\* numerators of the sampled values range over -MaxNum..MaxNum
MaxNum == 2
\* denominators of the sampled values range over 1..MaxDen
MaxDen == 2
\* largest grid size N tried by the pipeline
MaxN == 2

-----------------------------------------------------------------------------
(* Float arithmetic as exact extended rationals *)

IAbs(n) == IF n < 0 THEN -n ELSE n

ISign(n) == IF n > 0 THEN 1 ELSE IF n < 0 THEN -1 ELSE 0

RECURSIVE GCD(_, _)
GCD(a, b) == IF b = 0 THEN a ELSE GCD(b, a % b)

\* the value n/d in lowest terms; d = 0 gives +inf, -inf or NaN by the sign of n
Norm(n, d) ==
    IF d = 0 THEN <<ISign(n), 0>>
    ELSE LET g == GCD(IAbs(n), IAbs(d))
         IN  <<(ISign(d) * n) \div g, IAbs(d) \div g>>

R(n) == <<n, 1>>

NaN == <<0, 0>>

IsNaN(a) == a = NaN

IsFinite(a) == a[2] > 0

Mul(a, b) == Norm(a[1] * b[1], a[2] * b[2])

Add(a, b) ==
    IF a[2] = 0 /\ b[2] = 0
    THEN (IF a = b THEN a ELSE NaN)
    ELSE Norm(a[1] * b[2] + b[1] * a[2], a[2] * b[2])

Neg(a) == <<-a[1], a[2]>>

Sub(a, b) == Add(a, Neg(b))

\* x / y, a zero divisor being +0.0: x/0 is +-inf, 0/0 is NaN
Div(a, b) ==
    IF IsNaN(a) \/ IsNaN(b) THEN NaN
    ELSE IF b[2] = 0
         THEN (IF a[2] = 0 THEN NaN ELSE R(0))
         ELSE Norm(a[1] * b[2] * (IF b[1] < 0 THEN -1 ELSE 1), a[2] * IAbs(b[1]))

\* a < b; every comparison with NaN is false
Lt(a, b) ==
    IF IsNaN(a) \/ IsNaN(b) THEN FALSE
    ELSE IF a[2] = 0 /\ b[2] = 0 THEN a[1] < b[1]
    ELSE IF a[2] = 0 THEN a[1] < 0
    ELSE IF b[2] = 0 THEN b[1] > 0
    ELSE a[1] * b[2] < b[1] * a[2]

Gt(a, b) == Lt(b, a)

Ge(a, b) == ~IsNaN(a) /\ ~IsNaN(b) /\ ~Lt(a, b)

\* np.abs
Abs(a) == <<IAbs(a[1]), a[2]>>

\* np.sign: -1, 0 or 1 (NaN for NaN)
Sign(a) == IF IsNaN(a) THEN NaN ELSE R(ISign(a[1]))

\* ratio ** 2
Square(a) == Mul(a, a)

OneAndHalf == <<3, 2>>

\* np.clip(x, lo, None)
ClipLow(x, lo) == IF Lt(x, lo) THEN lo ELSE x

-----------------------------------------------------------------------------
(* Pointwise numerics *)

\* line 48; sin_wt stands for np.sin(omega_T * t)
temperature_perturbation(sin_wt, delta_T) == Add(R(1), Mul(delta_T, sin_wt))

\* line 104
f_prime_safe_initial(f_prime_initial, epsilon) == ClipLow(f_prime_initial, epsilon)

\* line 120
f_prime_safe_rhs(f_prime, epsilon) == ClipLow(f_prime, epsilon)

\* line 143
f_prime_evolved_safe(f_prime_evolved, epsilon) ==
    IF Gt(Abs(f_prime_evolved), epsilon)
    THEN f_prime_evolved
    ELSE Mul(Sign(f_prime_evolved), epsilon)

\* compute_initial_schwarzian with f' written for f''' in the Schwarzian
compute_initial_schwarzian_wrong_numerator(t, phi_initial, phi_prime, phi_double_prime, phi_triple_prime, epsilon) ==
    LET f_initial == Add(t, phi_initial)
        f_prime_initial == Add(R(1), phi_prime)
        f_double_prime_initial == phi_double_prime
        f_prime_safe == f_prime_safe_initial(f_prime_initial, epsilon)
        ratio == Div(f_double_prime_initial, f_prime_safe)
        S_initial == Sub(Div(f_prime_initial, f_prime_safe),
                         Mul(OneAndHalf, Square(ratio)))
    IN  [f_initial |-> f_initial,
         f_prime_initial |-> f_prime_initial,
         f_double_prime_initial |-> f_double_prime_initial,
         S_initial |-> S_initial,
         f_prime_safe |-> f_prime_safe]

\* lines 98-108 at one grid point; the local f_prime_safe is kept for observation
compute_initial_schwarzian(t, phi_initial, phi_prime, phi_double_prime, phi_triple_prime, epsilon) ==
    LET f_initial == Add(t, phi_initial)
        f_prime_initial == Add(R(1), phi_prime)
        f_double_prime_initial == phi_double_prime
        f_triple_prime_initial == phi_triple_prime
        f_prime_safe == f_prime_safe_initial(f_prime_initial, epsilon)
        ratio == Div(f_double_prime_initial, f_prime_safe)
        S_initial == Sub(Div(f_triple_prime_initial, f_prime_safe),
                         Mul(OneAndHalf, Square(ratio)))
    IN  [f_initial |-> f_initial,
         f_prime_initial |-> f_prime_initial,
         f_double_prime_initial |-> f_double_prime_initial,
         S_initial |-> S_initial,
         f_prime_safe |-> f_prime_safe]

\* equations_of_motion with the coupling constant left out of both couplings
equations_of_motion_always_coupled(sin_wt, S0_t, y, cfg) ==
    LET f_prime == y[2]
        f_double_prime == y[3]
        phi_prime == y[5]
        temperature == temperature_perturbation(sin_wt, cfg.delta_T)
        S_time_dependent == Mul(S0_t, temperature)
        f_prime_safe == f_prime_safe_rhs(f_prime, cfg.epsilon)
        ratio == Div(f_double_prime, f_prime_safe)
        f_triple_prime == Add(Mul(f_prime_safe,
                                  Add(S_time_dependent, Mul(OneAndHalf, Square(ratio)))),
                              phi_prime)
        phi_double_prime == Neg(f_prime)
    IN  [dydt |-> <<f_prime, f_double_prime, f_triple_prime, phi_prime, phi_double_prime>>,
         f_prime_safe |-> f_prime_safe]

\* lines 112-125; S0_t stands for S0_spline(t), y = <<f, f', f'', phi, phi'>>
equations_of_motion(sin_wt, S0_t, y, cfg) ==
    LET f_prime == y[2]
        f_double_prime == y[3]
        phi_prime == y[5]
        temperature == temperature_perturbation(sin_wt, cfg.delta_T)
        S_time_dependent == Mul(S0_t, temperature)
        f_prime_safe == f_prime_safe_rhs(f_prime, cfg.epsilon)
        ratio == Div(f_double_prime, f_prime_safe)
        f_triple_prime == Add(Mul(f_prime_safe,
                                  Add(S_time_dependent, Mul(OneAndHalf, Square(ratio)))),
                              Mul(cfg.C, phi_prime))
        phi_double_prime == Neg(Mul(cfg.C, f_prime))
    IN  [dydt |-> <<f_prime, f_double_prime, f_triple_prime, phi_prime, phi_double_prime>>,
         f_prime_safe |-> f_prime_safe]

\* reconstruct with the evolved Schwarzian taken from the raw f', not the guarded one
reconstruct_unguarded_schwarzian(t, sin_wt, S0_t, y, cfg) ==
    LET f_evolved == y[1]
        f_prime_evolved == y[2]
        f_double_prime_evolved == y[3]
        phi_evolved == y[4]
        phi_prime_evolved == y[5]
        safe == f_prime_evolved_safe(f_prime_evolved, cfg.epsilon)
        ratio == Div(f_double_prime_evolved, safe)
        temperature == temperature_perturbation(sin_wt, cfg.delta_T)
        S_time_dependent == Mul(S0_t, temperature)
        f_triple_prime_evolved ==
            Add(Mul(safe, Add(S_time_dependent, Mul(OneAndHalf, Square(ratio)))),
                Mul(cfg.C, phi_prime_evolved))
        S_evolved == Sub(Div(f_triple_prime_evolved, f_prime_evolved),
                         Mul(OneAndHalf, Square(Div(f_double_prime_evolved, f_prime_evolved))))
    IN  [f_evolved |-> f_evolved,
         f_prime_evolved |-> f_prime_evolved,
         phi_evolved |-> phi_evolved,
         phi_prime_evolved |-> phi_prime_evolved,
         f_prime_evolved_safe |-> safe,
         temperature |-> temperature,
         f_triple_prime_evolved |-> f_triple_prime_evolved,
         S_evolved |-> S_evolved,
         phi_evolved_from_f |-> Sub(f_evolved, t)]

\* lines 137-152 at one grid point t; y is the column of sol.y at that point
reconstruct(t, sin_wt, S0_t, y, cfg) ==
    LET f_evolved == y[1]
        f_prime_evolved == y[2]
        f_double_prime_evolved == y[3]
        phi_evolved == y[4]
        phi_prime_evolved == y[5]
        safe == f_prime_evolved_safe(f_prime_evolved, cfg.epsilon)
        ratio == Div(f_double_prime_evolved, safe)
        temperature == temperature_perturbation(sin_wt, cfg.delta_T)
        S_time_dependent == Mul(S0_t, temperature)
        f_triple_prime_evolved ==
            Add(Mul(safe, Add(S_time_dependent, Mul(OneAndHalf, Square(ratio)))),
                Mul(cfg.C, phi_prime_evolved))
        S_evolved == Sub(Div(f_triple_prime_evolved, safe), Mul(OneAndHalf, Square(ratio)))
    IN  [f_evolved |-> f_evolved,
         f_prime_evolved |-> f_prime_evolved,
         phi_evolved |-> phi_evolved,
         phi_prime_evolved |-> phi_prime_evolved,
         f_prime_evolved_safe |-> safe,
         temperature |-> temperature,
         f_triple_prime_evolved |-> f_triple_prime_evolved,
         S_evolved |-> S_evolved,
         phi_evolved_from_f |-> Sub(f_evolved, t)]

-----------------------------------------------------------------------------
(* Sampled values *)

\* the rationals n/d with |n| <= MaxNum and 1 <= d <= MaxDen
NumVals == {Norm(n, d) : n \in -MaxNum..MaxNum, d \in 1..MaxDen}

\* config.epsilon is a positive float (line 16)
EpsVals == {v \in NumVals : Gt(v, R(0))}

\* a Config (lines 10-18); the grid size and epsilon are scaled down to the
\* model's bounds and are overridden by the configurations below
DefaultConfig ==
    [C |-> R(1), delta |-> <<1, 100>>, t_start |-> R(0), t_end |-> R(3), N |-> MaxN,
     epsilon |-> <<1, 2>>, delta_T |-> <<1, 100>>, omega_T |-> <<1, 2>>]

-----------------------------------------------------------------------------
(* The pointwise harness: the three evaluations applied to one sampled     *)
(* point.  The same f' and f'' are fed to the initial path (as 1 + phi'    *)
(* and phi''), to the integrator's right-hand side and to the              *)
(* reconstruction (as components of y).                                    *)

NumConfigs ==
    {[DefaultConfig EXCEPT !.C = c, !.epsilon = e, !.delta_T = d] :
        c \in {R(0), R(1)}, e \in EpsVals, d \in {R(0), <<1, 2>>}}

NumPoints ==
    [t : {R(0), R(1)},
     phi_initial : {R(0), <<1, 2>>},
     f_prime : NumVals,
     f_double_prime : {R(-1), R(0), R(1)},
     phi_triple_prime : {R(0), R(1)},
     dilaton : {R(1)},
     dilaton_prime : {R(0), R(1)},
     S0_t : {R(-1), <<1, 2>>},
     sin_wt : {R(-1), R(1)}]

\* phi' at the point: f' = 1 + phi'
PtPhiPrime == Sub(pt.f_prime, R(1))

\* the ODE state at the point
PtY == <<Add(pt.t, pt.phi_initial), pt.f_prime, pt.f_double_prime, pt.dilaton, pt.dilaton_prime>>

NoPoint == [t |-> R(0), phi_initial |-> R(0), f_prime |-> R(1), f_double_prime |-> R(0),
            phi_triple_prime |-> R(0), dilaton |-> R(0), dilaton_prime |-> R(0),
            S0_t |-> R(0), sin_wt |-> R(0)]

NoNum == [initial |-> <<>>, rhs |-> <<>>, rec |-> <<>>]

NumInit ==
    /\ config \in NumConfigs
    /\ pt \in NumPoints
    /\ num = NoNum
    /\ pc = "initial"
    /\ stages = <<>> /\ err = <<>> /\ t_np = <<>> /\ pert = <<>> /\ init = <<>>
    /\ S0_spline = <<>> /\ sol = <<>> /\ plotArgs = <<>> /\ drawn = <<>>

EvalInitial ==
    /\ pc = "initial"
    /\ num' = [num EXCEPT !.initial =
                 <<compute_initial_schwarzian(pt.t, pt.phi_initial, PtPhiPrime,
                                              pt.f_double_prime, pt.phi_triple_prime,
                                              config.epsilon)>>]
    /\ pc' = "rhs"
    /\ UNCHANGED <<config, pt, pipeVars>>

EvalRhs ==
    /\ pc = "rhs"
    /\ num' = [num EXCEPT !.rhs = <<equations_of_motion(pt.sin_wt, pt.S0_t, PtY, config)>>]
    /\ pc' = "reconstruct"
    /\ UNCHANGED <<config, pt, pipeVars>>

EvalReconstruct ==
    /\ pc = "reconstruct"
    /\ num' = [num EXCEPT !.rec = <<reconstruct(pt.t, pt.sin_wt, pt.S0_t, PtY, config)>>]
    /\ pc' = "evaluated"
    /\ UNCHANGED <<config, pt, pipeVars>>

NumNext == EvalInitial \/ EvalRhs \/ EvalReconstruct

NumSpec == NumInit /\ [][NumNext]_vars

-----------------------------------------------------------------------------
(* The pipeline of main(), lines 22-44 *)

\* Config values tried by the pipeline; N ranges over -1..MaxN
PipeConfigs ==
    {[DefaultConfig EXCEPT !.C = c, !.delta = d, !.t_start = a, !.t_end = b, !.N = n] :
        c \in {R(0), R(1)}, d \in {R(0), R(1)},
        a \in {R(0), R(1)}, b \in {R(0), R(1), R(2)}, n \in -1..MaxN}

\* values of the perturbation, the dilaton and their derivatives at a grid
\* point when delta # 0 (lines 75-80; sin, cos and omega are not computed)
PertSamples ==
    {[phi_initial |-> R(0), phi_prime |-> R(1), phi_double_prime |-> R(0),
      phi_triple_prime |-> R(-1), dilaton_initial |-> R(1), dilaton_prime_initial |-> R(0)],
     [phi_initial |-> R(1), phi_prime |-> R(0), phi_double_prime |-> R(-1),
      phi_triple_prime |-> R(0), dilaton_initial |-> R(0), dilaton_prime_initial |-> R(-1)],
     [phi_initial |-> R(0), phi_prime |-> R(-1), phi_double_prime |-> R(0),
      phi_triple_prime |-> R(1), dilaton_initial |-> R(-1), dilaton_prime_initial |-> R(0)]}

\* delta = 0: every expression is 0 * sin(...) or 0 * cos(...)
ZeroSample ==
    [phi_initial |-> R(0), phi_prime |-> R(0), phi_double_prime |-> R(0),
     phi_triple_prime |-> R(0), dilaton_initial |-> R(0), dilaton_prime_initial |-> R(0)]

NaNSample ==
    [phi_initial |-> NaN, phi_prime |-> NaN, phi_double_prime |-> NaN,
     phi_triple_prime |-> NaN, dilaton_initial |-> NaN, dilaton_prime_initial |-> NaN]

\* columns of sol.y the solver may return past the first grid point
SolverStates ==
    {<<R(1), R(1), R(0), R(0), R(1)>>,
     <<R(2), R(0), R(1), R(1), R(0)>>,
     <<R(0), R(-1), R(1), R(1), R(1)>>}

\* values of np.sin(omega_T * t) on the grid
PipeSinVals == {R(0), R(1)}

\* sol.message of a failed solve_ivp
FailMessages == {"Required step size is less than spacing between numbers.",
                 "Integration step failed."}

SuccessMessage == "The solver successfully reached the end of the integration interval."

Raise(type, text) == <<[type |-> type, text |-> text]>>

Init ==
    /\ config \in PipeConfigs
    /\ pc = "linspace"
    /\ stages = <<>> /\ err = <<>> /\ t_np = <<>> /\ pert = <<>> /\ init = <<>>
    /\ S0_spline = <<>> /\ sol = <<>> /\ plotArgs = <<>> /\ drawn = <<>>
    /\ pt = NoPoint /\ num = NoNum

\* np.linspace(start, stop, n) for n >= 0
linspace(start, stop, n) ==
    [i \in 1..n |->
        IF n = 1 THEN start
        ELSE Add(start, Mul(R(i - 1), Div(Sub(stop, start), R(n - 1))))]

\* line 24
Grid ==
    /\ pc = "linspace"
    /\ stages' = Append(stages, "Grid")
    /\ IF config.N < 0
       THEN /\ err' = Raise("ValueError", <<"Number of samples must be non-negative.">>)
            /\ pc' = "raised"
            /\ UNCHANGED t_np
       ELSE /\ t_np' = linspace(config.t_start, config.t_end, config.N)
            /\ pc' = "perturbations"
            /\ UNCHANGED err
    /\ UNCHANGED <<config, pert, init, S0_spline, sol, plotArgs, drawn, pt, num>>

\* line 27, compute_initial_perturbations (lines 50-82).  t_np[-1] of an empty
\* grid raises at line 54; a grid of zero span makes omega a division by zero,
\* which the symbolic library either rejects or turns into NaN samples.
SymbolicDerivation ==
    /\ pc = "perturbations"
    /\ stages' = Append(stages, "SymbolicDerivation")
    /\ \/ /\ Len(t_np) = 0
          /\ err' = Raise("IndexError", <<"index -1 is out of bounds">>)
          /\ pc' = "raised"
          /\ UNCHANGED pert
       \/ /\ Len(t_np) > 0
          /\ t_np[Len(t_np)] = t_np[1]
          /\ err' = Raise("Exception", <<"omega = 2*pi/0 is not a number">>)
          /\ pc' = "raised"
          /\ UNCHANGED pert
       \/ /\ Len(t_np) > 0
          /\ t_np[Len(t_np)] = t_np[1]
          /\ pert' = [i \in 1..Len(t_np) |-> NaNSample]
          /\ pc' = "schwarzian"
          /\ UNCHANGED err
       \/ /\ Len(t_np) > 0
          /\ t_np[Len(t_np)] # t_np[1]
          /\ pert' \in [1..Len(t_np) ->
                          IF config.delta = R(0) THEN {ZeroSample} ELSE PertSamples]
          /\ pc' = "schwarzian"
          /\ UNCHANGED err
    /\ UNCHANGED <<config, t_np, init, S0_spline, sol, plotArgs, drawn, pt, num>>

\* lines 30-32
SchwarzianInit ==
    /\ pc = "schwarzian"
    /\ stages' = Append(stages, "SchwarzianInit")
    /\ init' = [i \in 1..Len(t_np) |->
                  compute_initial_schwarzian(t_np[i], pert[i].phi_initial, pert[i].phi_prime,
                                             pert[i].phi_double_prime,
                                             pert[i].phi_triple_prime, config.epsilon)]
    /\ pc' = "spline"
    /\ UNCHANGED <<config, err, t_np, pert, S0_spline, sol, plotArgs, drawn, pt, num>>

\* what CubicSpline accepts: at least two finite, strictly increasing knots
\* and finite samples
SplineInputOk(x, y) ==
    /\ Len(x) >= 2
    /\ \A i \in 1..Len(x) : IsFinite(x[i]) /\ IsFinite(y[i])
    /\ \A i \in 1..(Len(x) - 1) : Lt(x[i], x[i + 1])

\* line 35; the interpolant is kept as its values at the knots
Interpolation ==
    /\ pc = "spline"
    /\ stages' = Append(stages, "Interpolation")
    /\ LET S_initial == [i \in 1..Len(init) |-> init[i].S_initial]
       IN  IF SplineInputOk(t_np, S_initial)
           THEN /\ S0_spline' = <<S_initial>>
                /\ pc' = "solve"
                /\ UNCHANGED err
           ELSE /\ err' = Raise("ValueError", <<"x must be a strictly increasing sequence of at least 2 finite values.">>)
                /\ pc' = "raised"
                /\ UNCHANGED S0_spline
    /\ UNCHANGED <<config, t_np, pert, init, sol, plotArgs, drawn, pt, num>>

\* line 38
initial_conditions ==
    <<init[1].f_initial, init[1].f_prime_initial, init[1].f_double_prime_initial,
      pert[1].dilaton_initial, pert[1].dilaton_prime_initial>>

\* the results solve_ivp (line 127) can return: a full trajectory on the grid
\* starting from the initial conditions, or a failure with the columns
\* reached before it
SolveIvpResults ==
    LET full == {y \in [1..Len(t_np) -> SolverStates \cup {initial_conditions}] :
                    y[1] = initial_conditions}
    IN  {[success |-> TRUE, message |-> SuccessMessage, y |-> y] : y \in full}
        \cup
        {[success |-> FALSE, message |-> m, y |-> SubSeq(y, 1, k)] :
            m \in FailMessages, y \in full, k \in 0..(Len(t_np) - 1)}

\* solve_equations_of_motion without the check of sol.success
solve_equations_of_motion_unchecked ==
    /\ pc = "solve"
    /\ stages' = Append(stages, "Integration")
    /\ \E result \in SolveIvpResults :
         /\ sol' = <<result>>
         /\ pc' = "process"
         /\ UNCHANGED err
    /\ UNCHANGED <<config, t_np, pert, init, S0_spline, plotArgs, drawn, pt, num>>

\* solve_equations_of_motion run again by main when the solver failed
solve_equations_of_motion_retried ==
    /\ pc = "solve"
    /\ stages' = Append(stages, "Integration")
    /\ \E result \in SolveIvpResults :
         /\ sol' = <<result>>
         /\ pc' = IF result.success THEN "process" ELSE "solve"
         /\ UNCHANGED err
    /\ UNCHANGED <<config, t_np, pert, init, S0_spline, plotArgs, drawn, pt, num>>

\* lines 41 and 110-132: the failure check of lines 129-130
solve_equations_of_motion ==
    /\ pc = "solve"
    /\ stages' = Append(stages, "Integration")
    /\ \E result \in SolveIvpResults :
         /\ sol' = <<result>>
         /\ IF ~result.success
            THEN /\ err' = Raise("RuntimeError",
                                 <<"Solver failed: ", result.message,
                                   ". Consider adjusting solver parameters or reviewing initial conditions.">>)
                 /\ pc' = "raised"
            ELSE /\ pc' = "process"
                 /\ UNCHANGED err
    /\ UNCHANGED <<config, t_np, pert, init, S0_spline, plotArgs, drawn, pt, num>>

Column(rows, field) == [i \in 1..Len(rows) |-> rows[i][field]]

\* lines 44 and 134-155: the reconstruction, up to the call of plot_solutions
process_and_plot_solution ==
    /\ pc = "process"
    /\ stages' = Append(stages, "Reconstruction")
    /\ \E sin_wt \in [1..Len(t_np) -> PipeSinVals] :
         LET rec == [i \in 1..Len(t_np) |->
                       reconstruct(t_np[i], sin_wt[i], S0_spline[1][i], sol[1].y[i], config)]
         IN  plotArgs' = <<[t_np |-> t_np,
                            phi_initial |-> Column(pert, "phi_initial"),
                            phi_evolved_from_f |-> Column(rec, "phi_evolved_from_f"),
                            S_initial |-> Column(init, "S_initial"),
                            S_evolved |-> Column(rec, "S_evolved"),
                            temperature |-> Column(rec, "temperature"),
                            f_evolved |-> Column(rec, "f_evolved"),
                            f_prime_evolved |-> Column(rec, "f_prime_evolved"),
                            phi_evolved |-> Column(rec, "phi_evolved"),
                            f_initial |-> Column(init, "f_initial")]>>
    /\ pc' = "plot"
    /\ UNCHANGED <<config, err, t_np, pert, init, S0_spline, sol, drawn, pt, num>>

\* lines 157-207: the eight curves drawn, in order
plot_solutions ==
    /\ pc = "plot"
    /\ stages' = Append(stages, "Presentation")
    /\ LET a == plotArgs[1]
       IN  drawn' = <<[subplot |-> 1, y |-> a.phi_initial],
                      [subplot |-> 1, y |-> a.phi_evolved_from_f],
                      [subplot |-> 2, y |-> a.S_initial],
                      [subplot |-> 2, y |-> a.S_evolved],
                      [subplot |-> 3, y |-> a.temperature],
                      [subplot |-> 4, y |-> [i \in 1..Len(a.t_np) |->
                                               Sub(a.f_evolved[i], a.f_initial[i])]],
                      [subplot |-> 5, y |-> a.f_prime_evolved],
                      [subplot |-> 6, y |-> a.phi_evolved]>>
    /\ pc' = "done"
    /\ UNCHANGED <<config, err, t_np, pert, init, S0_spline, sol, plotArgs, pt, num>>

Next ==
    \/ Grid
    \/ SymbolicDerivation
    \/ SchwarzianInit
    \/ Interpolation
    \/ solve_equations_of_motion
    \/ process_and_plot_solution
    \/ plot_solutions

Spec == Init /\ [][Next]_vars

-----------------------------------------------------------------------------
(* Claims about the pointwise numerics, checked under NumSpec *)

\* the guarded divisors computed so far at the point, by path
SafeInitial == num.initial[1].f_prime_safe

SafeRhs == num.rhs[1].f_prime_safe

SafeRec == num.rec[1].f_prime_evolved_safe

AtLeastEpsilon(safe) == Ge(Abs(safe), config.epsilon)

\* C1: on the initial path, in the integrator's right-hand side and in the
\* reconstruction, the guarded divisor satisfies |f'_safe| >= epsilon for
\* every f' (positive, negative or zero).
C1_GuardAtLeastEpsilon ==
    /\ num.initial # <<>> => AtLeastEpsilon(SafeInitial)
    /\ num.rhs # <<>> => AtLeastEpsilon(SafeRhs)
    /\ num.rec # <<>> => AtLeastEpsilon(SafeRec)

\* C2: for every input the reconstruction computes the same f'_safe and the
\* same f''' as the integrator's right-hand side, and the same f'_safe as
\* compute_initial_schwarzian.
C2_SameGuardSameFormula ==
    pc = "evaluated" =>
        /\ SafeRec = SafeRhs
        /\ num.rec[1].f_triple_prime_evolved = num.rhs[1].dydt[3]
        /\ SafeRec = SafeInitial

\* what a sign-preserving guard yields for f'
SignPreserving(f_prime, safe) ==
    IF Ge(Abs(f_prime), config.epsilon)
    THEN safe = f_prime
    ELSE /\ safe \in {config.epsilon, Neg(config.epsilon)}
         /\ Gt(f_prime, R(0)) => safe = config.epsilon
         /\ Lt(f_prime, R(0)) => safe = Neg(config.epsilon)

\* C3: on all three paths the guard is sign-preserving: an f' within epsilon
\* of zero becomes +epsilon or -epsilon with the sign of f', and an f' with
\* |f'| >= epsilon passes through unchanged.
C3_GuardSignPreserving ==
    /\ num.initial # <<>> => SignPreserving(pt.f_prime, SafeInitial)
    /\ num.rhs # <<>> => SignPreserving(pt.f_prime, SafeRhs)
    /\ num.rec # <<>> => SignPreserving(pt.f_prime, SafeRec)

\* other values of the dilaton components phi and phi'
DilatonVals == {R(-2), R(0), <<1, 2>>}

\* C8: with C = 0, equations_of_motion returns phi'' = 0 and an f''' that is
\* the same for every state differing from the evaluated one only in the
\* dilaton components (phi, phi').
C8_DecoupledWhenCZero ==
    (num.rhs # <<>> /\ config.C = R(0)) =>
        /\ num.rhs[1].dydt[5] = R(0)
        /\ \A p \in DilatonVals, q \in DilatonVals :
              equations_of_motion(pt.sin_wt, pt.S0_t,
                                  <<PtY[1], PtY[2], PtY[3], p, q>>, config).dydt[3]
                = num.rhs[1].dydt[3]

C8_Witness ==
    /\ num.rhs # <<>> /\ config.C = R(0)
    /\ pt.dilaton_prime # R(0) /\ pt.dilaton # R(0) /\ pt.f_prime # R(0)
    /\ num.rhs[1].dydt[3] # R(0)

\* C9: for the identity f(t) = t (phi = phi' = phi'' = phi''' = 0) and any
\* epsilon > 0, compute_initial_schwarzian returns S_initial = 0,
\* f_initial = t, f' = 1 and f'' = 0.
C9_IdentitySchwarzianZero ==
    (/\ num.initial # <<>>
     /\ pt.phi_initial = R(0) /\ PtPhiPrime = R(0)
     /\ pt.f_double_prime = R(0) /\ pt.phi_triple_prime = R(0)) =>
        /\ num.initial[1].S_initial = R(0)
        /\ num.initial[1].f_initial = pt.t
        /\ num.initial[1].f_prime_initial = R(1)
        /\ num.initial[1].f_double_prime_initial = R(0)

\* the identity case evaluated with an epsilon above f' = 1, so that the guard acts
C9_Witness ==
    /\ num.initial # <<>>
    /\ pt.phi_initial = R(0) /\ PtPhiPrime = R(0)
    /\ pt.f_double_prime = R(0) /\ pt.phi_triple_prime = R(0)
    /\ pt.t # R(0)
    /\ Gt(config.epsilon, R(1))

-----------------------------------------------------------------------------
(* Claims about the pipeline, checked under Spec *)

StageOrder ==
    <<"Grid", "SymbolicDerivation", "SchwarzianInit", "Interpolation",
      "Integration", "Reconstruction", "Presentation">>

Entered(stage) == \E i \in 1..Len(stages) : stages[i] = stage

\* a stage has completed when it was entered and did not raise
Completed(stage) ==
    \E i \in 1..Len(stages) :
        stages[i] = stage /\ (pc = "raised" => i < Len(stages))

SolverFailed == sol # <<>> /\ ~sol[1].success

\* C4: when the ODE solver reports failure, solve_equations_of_motion raises
\* an error carrying the solver's message and the run ends there: the
\* reconstruction and the plotting are never entered and no trajectory, not
\* even a partial one, is handed on.
C4_SolverFailureAborts ==
    SolverFailed =>
        /\ pc = "raised"
        /\ err # <<>>
        /\ err[1].type = "RuntimeError"
        /\ \E i \in 1..Len(err[1].text) : err[1].text[i] = sol[1].message
        /\ ~Entered("Reconstruction") /\ ~Entered("Presentation")
        /\ plotArgs = <<>> /\ drawn = <<>>

\* the solver failed after it had produced part of the trajectory
C4_Witness == SolverFailed /\ Len(sol[1].y) >= 1 /\ pc = "raised"

ValidConfig == Lt(config.t_start, config.t_end) /\ config.N > 0

\* C5: under a configuration with t_end <= t_start or N <= 0 no computation
\* stage (symbolic derivation, initial Schwarzian, interpolation, ODE solve)
\* completes: the configuration is rejected before any of them.
C5_InvalidConfigRejectedFirst ==
    ~ValidConfig =>
        /\ ~Completed("SymbolicDerivation")
        /\ ~Completed("SchwarzianInit")
        /\ ~Completed("Interpolation")
        /\ ~Completed("Integration")

\* C6: every curve plot_solutions draws is one of the series handed to it by
\* process_and_plot_solution.
C6_PlotOnlyConsumes ==
    pc = "done" =>
        \A i \in 1..Len(drawn) :
            \E name \in DOMAIN plotArgs[1] : drawn[i].y = plotArgs[1][name]

IsPrefix(s, t) == Len(s) <= Len(t) /\ \A i \in 1..Len(s) : s[i] = t[i]

\* C7: the stages are entered in the fixed order grid, symbolic derivation,
\* initial Schwarzian, interpolation, integration, reconstruction,
\* presentation, none twice; a stage is entered only when its predecessor
\* has completed and left its result; a finished run has entered each stage
\* exactly once.
C7_StrictlyLinear ==
    /\ IsPrefix(stages, StageOrder)
    /\ \A i \in 2..Len(stages) : Completed(StageOrder[i - 1])
    /\ Entered("SchwarzianInit") => Len(pert) = Len(t_np) /\ pert # <<>>
    /\ Entered("Interpolation") => Len(init) = Len(t_np) /\ init # <<>>
    /\ Entered("Integration") => S0_spline # <<>>
    /\ Entered("Reconstruction") =>
          sol # <<>> /\ sol[1].success /\ Len(sol[1].y) = Len(t_np)
    /\ Entered("Presentation") => plotArgs # <<>>
    /\ pc = "done" => stages = StageOrder /\ drawn # <<>>

C7_Witness == pc = "done" /\ stages = StageOrder /\ Len(t_np) >= 2

====
